---------------------------- MODULE Spec2Model ----------------------------
(***************************************************************************)
(* A model of the book-review recommendation system: the Graph and         *)
(* WeightedGraph vertex/edge stores (Graph_ADT.py, recommendation.py), the *)
(* similarity scores, recommend_books, the rating predictors               *)
(* (predictions.py) and the cluster merging of cluster_weight.py.          *)
(*                                                                         *)
(* A graph object is the dictionary _vertices.  It is modelled by          *)
(*   kind[i]  the kind of the vertex stored under key i, "none" when i is  *)
(*            not a key of _vertices;                                      *)
(*   adj[i]   the keys of vertex i's neighbours (a set for _Vertex, the    *)
(*            key set of the dict for _WeightedVertex);                    *)
(*   wt[i][j] the value vertex i's neighbours dict holds for j (0 when j   *)
(*            is no key of it, and always 0 for the unweighted _Vertex).   *)
(* adj and wt are directed: what i holds about j and what j holds about i  *)
(* are separate entries, as in the code.                                   *)
(***************************************************************************)
EXTENDS Integers, Sequences, FiniteSets, TLC

VARIABLES
    cls,      \* the class of the graph object: "Graph" or "WeightedGraph"
    kind,     \* _vertices: key -> kind of the vertex ("none": no such key)
    adj,      \* key -> keys of the vertex's neighbours
    wt,       \* key -> key -> weight stored in the vertex's neighbours dict
    hist,     \* history: unordered pair -> weight of the last successful add_edge
    calls,    \* number of add_vertex / add_edge calls made so far
    ret,      \* the last call: its name, its arguments (a, b, k), the weight
              \* item1 held for item2 before it (old) and its outcome (out)
    pc,       \* find_clusters_*: position of the running call
    clusters, \* find_clusters_*: the local list of clusters
    rounds,   \* find_clusters_*: merge rounds completed
    todo,     \* find_clusters_*: length of the range the for loop iterates
    numClusters, \* find_clusters_*: the num_clusters argument
    strategy  \* which of find_clusters_random / find_clusters_greedy runs

vars == <<cls, kind, adj, wt, hist, calls, ret, pc, clusters, rounds, todo,
          numClusters, strategy>>

graphVars == <<cls, kind, adj, wt>>
clusterVars == <<pc, clusters, rounds, todo, numClusters, strategy>>

(***************************************************************************)
(* Bounds of the graph-building specification.                             *)
(***************************************************************************)
NumItems == 3
MaxWeight == 2
MaxCalls == 5

Items == 1..NumItems
Kinds == {"user", "book"}
Weights == 0..MaxWeight

Max(a, b) == IF a >= b THEN a ELSE b

Pair(a, b) == {a, b}

EmptyAdj(S) == [i \in S |-> {}]
ZeroWt(S) == [i \in S |-> [j \in S |-> 0]]

IdleCluster ==
    /\ pc = "none" /\ clusters = <<>> /\ rounds = 0 /\ todo = 0
    /\ numClusters = 0 /\ strategy = "none"

(***************************************************************************)
(* Graph.__init__ / WeightedGraph.__init__: _vertices = {}.                *)
(***************************************************************************)
Init ==
    /\ cls \in {"Graph", "WeightedGraph"}
    /\ kind = [i \in Items |-> "none"]
    /\ adj = EmptyAdj(Items)
    /\ wt = ZeroWt(Items)
    /\ hist = [p \in {} |-> 0]
    /\ calls = 0
    /\ ret = [op |-> "init", a |-> 0, b |-> 0, k |-> "none", old |-> 0,
              out |-> "ok"]
    /\ IdleCluster

Present(item) == kind[item] # "none"

(***************************************************************************)
(* Graph.add_vertex and WeightedGraph.add_vertex (the same body).          *)
(***************************************************************************)
add_vertex_overwrite(item, knd) ==
    /\ kind' = [kind EXCEPT ![item] = knd]
    /\ adj' = [adj EXCEPT ![item] = {}]
    /\ wt' = [wt EXCEPT ![item] = [j \in DOMAIN wt |-> 0]]

add_vertex(item, knd) ==
    IF ~Present(item)
    THEN /\ kind' = [kind EXCEPT ![item] = knd]
         /\ adj' = [adj EXCEPT ![item] = {}]
         /\ wt' = [wt EXCEPT ![item] = [j \in DOMAIN wt |-> 0]]
    ELSE UNCHANGED <<kind, adj, wt>>

AddVertex ==
    /\ calls < MaxCalls
    /\ \E item \in Items, knd \in Kinds :
          /\ add_vertex(item, knd)
          /\ ret' = [op |-> "add_vertex", a |-> item, b |-> item, k |-> knd,
                     old |-> 0, out |-> "ok"]
    /\ calls' = calls + 1
    /\ UNCHANGED <<cls, hist, clusterVars>>

(***************************************************************************)
(* Graph.add_edge: the neighbour sets of both vertices grow, or ValueError.*)
(* The outcome is "ok" or "ValueError".                                    *)
(***************************************************************************)
Graph_add_edge(item1, item2, out) ==
    IF Present(item1) /\ Present(item2)
    THEN /\ adj' = [adj EXCEPT ![item1] = @ \cup {item2},
                               ![item2] = @ \cup {item1}]
         /\ out = "ok"
         /\ UNCHANGED <<kind, wt>>
    ELSE /\ out = "ValueError"
         /\ UNCHANGED <<kind, adj, wt>>

(***************************************************************************)
(* WeightedGraph.add_edge: v1.neighbours[v2] = weight and                  *)
(* v2.neighbours[v1] = weight, or ValueError.                              *)
(***************************************************************************)
add_edge_one_way(item1, item2, weight, out) ==
    IF Present(item1) /\ Present(item2)
    THEN /\ adj' = [adj EXCEPT ![item1] = @ \cup {item2}]
         /\ wt' = [wt EXCEPT ![item1][item2] = weight]
         /\ out = "ok"
         /\ UNCHANGED kind
    ELSE /\ out = "ValueError"
         /\ UNCHANGED <<kind, adj, wt>>

add_edge_half_done(item1, item2, weight, out) ==
    IF Present(item1) /\ Present(item2)
    THEN /\ adj' = [adj EXCEPT ![item1] = @ \cup {item2},
                               ![item2] = @ \cup {item1}]
         /\ wt' = [wt EXCEPT ![item1][item2] = weight,
                             ![item2][item1] = weight]
         /\ out = "ok"
         /\ UNCHANGED kind
    ELSE /\ out = "ValueError"
         /\ adj' = [adj EXCEPT ![item1] = IF Present(item1)
                                          THEN @ \cup {item2} ELSE @]
         /\ wt' = [wt EXCEPT ![item1][item2] = IF Present(item1)
                                               THEN weight ELSE @]
         /\ UNCHANGED kind

WeightedGraph_add_edge(item1, item2, weight, out) ==
    IF Present(item1) /\ Present(item2)
    THEN /\ adj' = [adj EXCEPT ![item1] = @ \cup {item2},
                               ![item2] = @ \cup {item1}]
         /\ wt' = [wt EXCEPT ![item1][item2] = weight,
                             ![item2][item1] = weight]
         /\ out = "ok"
         /\ UNCHANGED kind
    ELSE /\ out = "ValueError"
         /\ UNCHANGED <<kind, adj, wt>>

AddEdge ==
    /\ calls < MaxCalls
    /\ cls = "Graph"
    /\ \E item1 \in Items, item2 \in Items, out \in {"ok", "ValueError"} :
          /\ Graph_add_edge(item1, item2, out)
          /\ ret' = [op |-> "add_edge", a |-> item1, b |-> item2, k |-> "none",
                     old |-> 0, out |-> out]
    /\ calls' = calls + 1
    /\ UNCHANGED <<cls, hist, clusterVars>>

AddWeightedEdge ==
    /\ calls < MaxCalls
    /\ cls = "WeightedGraph"
    /\ \E item1 \in Items, item2 \in Items, weight \in Weights,
          out \in {"ok", "ValueError"} :
          /\ WeightedGraph_add_edge(item1, item2, weight, out)
          /\ ret' = [op |-> "add_edge", a |-> item1, b |-> item2, k |-> "none",
                     old |-> wt[item1][item2], out |-> out]
          /\ hist' = IF out = "ok"
                     THEN [p \in DOMAIN hist \cup {Pair(item1, item2)} |->
                             IF p = Pair(item1, item2) THEN weight ELSE hist[p]]
                     ELSE hist
    /\ calls' = calls + 1
    /\ UNCHANGED <<cls, clusterVars>>

Next == AddVertex \/ AddEdge \/ AddWeightedEdge

Spec == Init /\ [][Next]_vars

(***************************************************************************)
(* Graph.adjacent, WeightedGraph.get_weight.                               *)
(***************************************************************************)
adjacent(item1, item2) ==
    IF Present(item1) /\ Present(item2)
    THEN \E v2 \in adj[item1] : v2 = item2
    ELSE FALSE

\* For two vertices (self._vertices[item] raises KeyError for a missing item:
\* the callers modelled here test Present first, as the code's outcome).
get_weight(item1, item2) ==
    IF item2 \in adj[item1] THEN wt[item1][item2] ELSE 0

GraphUnchanged == kind' = kind /\ adj' = adj /\ wt' = wt

(***************************************************************************)
(* C3: on a WeightedGraph, after any sequence of add_vertex and add_edge   *)
(* calls, adjacent and get_weight are symmetric for all present vertices;  *)
(* a pair for which an edge was added holds, in both directions, the       *)
(* weight of the most recent add_edge for it, and get_weight is 0 for a    *)
(* pair for which no edge was ever added.                                  *)
(***************************************************************************)
C3_WeightSymmetric ==
    cls = "WeightedGraph" =>
      \A a \in Items, b \in Items :
         (Present(a) /\ Present(b)) =>
            /\ adjacent(a, b) = adjacent(b, a)
            /\ get_weight(a, b) = get_weight(b, a)
            /\ Pair(a, b) \in DOMAIN hist =>
                  /\ adjacent(a, b) /\ adjacent(b, a)
                  /\ get_weight(a, b) = hist[Pair(a, b)]
                  /\ get_weight(b, a) = hist[Pair(a, b)]
            /\ Pair(a, b) \notin DOMAIN hist => get_weight(a, b) = 0

\* An add_edge has just overwritten the weight 1 of a pair by the weight 2.
C3_Witness ==
    /\ cls = "WeightedGraph"
    /\ ret.op = "add_edge" /\ ret.out = "ok" /\ ret.a # ret.b
    /\ ret.old = 1
    /\ get_weight(ret.a, ret.b) = 2 /\ get_weight(ret.b, ret.a) = 2

(***************************************************************************)
(* C4: an add_edge call (Graph or WeightedGraph) with at least one item    *)
(* that is not a vertex raises ValueError and leaves the graph unchanged:  *)
(* no vertex is created, no adjacency or weight entry is added or changed. *)
(***************************************************************************)
C4_AddEdgeMissingFails ==
    [][(ret'.op = "add_edge" /\ (~Present(ret'.a) \/ ~Present(ret'.b)))
         => (ret'.out = "ValueError" /\ GraphUnchanged)]_vars

\* A failed add_edge whose first item is a vertex with neighbours and whose
\* second item is not a vertex.
C4_Witness ==
    /\ ret.op = "add_edge" /\ ret.out = "ValueError"
    /\ Present(ret.a) /\ ~Present(ret.b)
    /\ adj[ret.a] # {}

(***************************************************************************)
(* C5: no vertex of a Graph or WeightedGraph is its own neighbour, after   *)
(* any sequence of add_vertex and add_edge calls, add_edge(x, x) included. *)
(***************************************************************************)
C5_NoSelfLoops == \A i \in Items : ~adjacent(i, i)

(***************************************************************************)
(* C8: add_vertex on a key that is already present changes nothing (the    *)
(* vertex keeps its kind, its neighbours and its weights, and so does      *)
(* every other vertex), and no call changes the kind of a present vertex.  *)
(***************************************************************************)
C8_AddVertexExistingNoOp ==
    [][/\ (ret'.op = "add_vertex" /\ Present(ret'.a)) => GraphUnchanged
       /\ \A i \in Items : Present(i) => kind'[i] = kind[i]]_vars

\* An add_vertex has just been called, with another kind, on a vertex that
\* has neighbours.
C8_Witness ==
    /\ ret.op = "add_vertex"
    /\ Present(ret.a) /\ kind[ret.a] # ret.k
    /\ adj[ret.a] # {}

(***************************************************************************)
(* CLUSTERING (cluster_weight.py).                                         *)
(*                                                                         *)
(* find_clusters_random and find_clusters_greedy take a WeightedGraph and  *)
(* num_clusters.  The specification SpecCluster draws the graph (its       *)
(* vertices 1..n and a symmetric weight for every pair of them) and        *)
(* num_clusters in Init, runs one of the two functions, one action per     *)
(* iteration of its for loop.                                              *)
(*                                                                         *)
(* Bounds.  A weight is -1 or in 1..MaxClusterWeight; a missing edge reads *)
(* as 0 in get_weight.  Self-loops are left out of the drawn graphs: the   *)
(* functions only read get_weight(u, v) for u and v in different clusters. *)
(***************************************************************************)
NumVertices == 3
MaxClusterWeight == 1

CItems == 1..NumVertices
NoEdge == 0
EdgeChoices == {NoEdge, -1} \cup (1..MaxClusterWeight)
CPairs == {p \in SUBSET CItems : Cardinality(p) = 2}
NumClustersArgs == (-1)..(NumVertices + 1)

NoCall == [op |-> "init", a |-> 0, b |-> 0, k |-> "none", old |-> 0,
           out |-> "ok"]

InitCluster ==
    /\ cls = "WeightedGraph"
    /\ \E n \in 0..NumVertices :
          /\ kind = [i \in CItems |-> IF i <= n THEN "book" ELSE "none"]
          /\ \E w \in [CPairs -> EdgeChoices] :
                /\ adj = [i \in CItems |->
                            {j \in CItems \ {i} :
                               i <= n /\ j <= n /\ w[{i, j}] # NoEdge}]
                /\ wt = [i \in CItems |-> [j \in CItems |->
                            IF i # j /\ i <= n /\ j <= n THEN w[{i, j}] ELSE 0]]
    /\ hist = [p \in {} |-> 0]
    /\ calls = 0
    /\ ret = NoCall
    /\ pc = "start"
    /\ clusters = <<>>
    /\ rounds = 0
    /\ todo = 0
    /\ numClusters \in NumClustersArgs
    /\ strategy \in {"random", "greedy"}

(***************************************************************************)
(* Graph.get_all_vertices() with kind '': the keys of _vertices.           *)
(***************************************************************************)
get_all_vertices == {i \in DOMAIN kind : Present(i)}

(***************************************************************************)
(* cross_cluster_weight: the sum of get_weight(u, v) over u in cluster1    *)
(* and v in cluster2, divided by len(cluster1) * len(cluster2).  The       *)
(* quotient is kept exact, as the pair <<weights, denominator>>; the       *)
(* denominator is positive for non-empty clusters.                         *)
(***************************************************************************)
RECURSIVE SumWeights(_)
SumWeights(S) ==
    IF S = {} THEN 0
    ELSE LET uv == CHOOSE x \in S : TRUE
         IN  get_weight(uv[1], uv[2]) + SumWeights(S \ {uv})

cross_cluster_weight(cluster1, cluster2) ==
    <<SumWeights(cluster1 \X cluster2),
      Cardinality(cluster1) * Cardinality(cluster2)>>

\* score > best, for quotients with positive denominators
Greater(score, best) == score[1] * best[2] > best[1] * score[2]

MinusOne == <<-1, 1>>

(***************************************************************************)
(* The loop of find_clusters_random that picks the cluster to merge c1     *)
(* (= cl[i]) into: the index of best_c2, 0 when best_c2 is still None.     *)
(***************************************************************************)
RECURSIVE ScanRandom(_, _, _, _, _)
ScanRandom(cl, i, j, best, best_c2) ==
    IF j > Len(cl) THEN best_c2
    ELSE IF j = i THEN ScanRandom(cl, i, j + 1, best, best_c2)
    ELSE LET score == cross_cluster_weight(cl[i], cl[j])
         IN  IF Greater(score, best)
             THEN ScanRandom(cl, i, j + 1, score, j)
             ELSE ScanRandom(cl, i, j + 1, best, best_c2)

(***************************************************************************)
(* The double loop of find_clusters_greedy: the indices <<i1, i2>> of      *)
(* (best_c1, best_c2), <<0, 0>> when both are still None.                  *)
(***************************************************************************)
\* The double loop with "score >= best" in place of "score > best".
RECURSIVE ScanGreedyLastWins(_, _, _, _, _)
ScanGreedyLastWins(cl, i1, i2, best, bestPair) ==
    IF i1 > Len(cl) THEN bestPair
    ELSE IF i2 > Len(cl)
         THEN ScanGreedyLastWins(cl, i1 + 1, i1 + 2, best, bestPair)
    ELSE LET score == cross_cluster_weight(cl[i1], cl[i2])
         IN  IF ~Greater(best, score)
             THEN ScanGreedyLastWins(cl, i1, i2 + 1, score, <<i1, i2>>)
             ELSE ScanGreedyLastWins(cl, i1, i2 + 1, best, bestPair)

RECURSIVE ScanGreedy(_, _, _, _, _)
ScanGreedy(cl, i1, i2, best, bestPair) ==
    IF i1 > Len(cl) THEN bestPair
    ELSE IF i2 > Len(cl) THEN ScanGreedy(cl, i1 + 1, i1 + 2, best, bestPair)
    ELSE LET score == cross_cluster_weight(cl[i1], cl[i2])
         IN  IF Greater(score, best)
             THEN ScanGreedy(cl, i1, i2 + 1, score, <<i1, i2>>)
             ELSE ScanGreedy(cl, i1, i2 + 1, best, bestPair)

(***************************************************************************)
(* list.remove(x): the list without its first element equal to x.          *)
(***************************************************************************)
ListRemove(cl, x) ==
    LET k == CHOOSE m \in 1..Len(cl) :
                 cl[m] = x /\ \A q \in 1..(m - 1) : cl[q] # x
    IN  [q \in 1..(Len(cl) - 1) |-> IF q < k THEN cl[q] ELSE cl[q + 1]]

(***************************************************************************)
(* best_c2.update(c1); clusters.remove(c1), for c1 = cl[i1], best_c2 =     *)
(* cl[i2].                                                                 *)
(***************************************************************************)
MergeForgetsUpdate(cl, i1, i2) == ListRemove(cl, cl[i1])

Merge(cl, i1, i2) ==
    ListRemove([cl EXCEPT ![i2] = cl[i2] \cup cl[i1]], cl[i1])

(***************************************************************************)
(* len(range(0, len(clusters) - num_clusters)): the number of iterations,  *)
(* fixed when the for loop starts.                                         *)
(***************************************************************************)
loop_range_from_one(len, num_clusters) == Max(0, len - num_clusters - 1)

loop_range(len, num_clusters) == Max(0, len - num_clusters)

RECURSIVE Singletons(_, _)
Singletons(n, S) ==
    IF n = 0 THEN <<>>
    ELSE IF n \in S THEN Append(Singletons(n - 1, S), {n})
    ELSE Singletons(n - 1, S)

(***************************************************************************)
(* clusters = [{book} for book in graph.get_all_vertices()], and the range *)
(* of the for loop.  The list is taken in key order: the iteration order   *)
(* of the set is arbitrary, and every order of every graph is the key      *)
(* order of a relabelled graph, which Init also draws.                     *)
(***************************************************************************)
Start ==
    /\ pc = "start"
    /\ clusters' = Singletons(NumVertices, get_all_vertices)
    /\ todo' = loop_range(Len(clusters'), numClusters)
    /\ pc' = "loop"
    /\ UNCHANGED <<graphVars, hist, calls, ret, rounds, numClusters, strategy>>

(***************************************************************************)
(* One iteration of the for loop of find_clusters_random.  random.choice   *)
(* raises IndexError on an empty list and None.update raises               *)
(* AttributeError: the call ends there ("crashed") with clusters as it was.*)
(***************************************************************************)
RandomRound ==
    /\ pc = "loop" /\ strategy = "random" /\ rounds < todo
    /\ IF clusters = <<>>
       THEN pc' = "crashed" /\ UNCHANGED <<clusters, rounds>>
       ELSE \E i \in 1..Len(clusters) :
              LET best_c2 == ScanRandom(clusters, i, 1, MinusOne, 0)
              IN  IF best_c2 = 0
                  THEN pc' = "crashed" /\ UNCHANGED <<clusters, rounds>>
                  ELSE /\ clusters' = Merge(clusters, i, best_c2)
                       /\ rounds' = rounds + 1
                       /\ pc' = "loop"
    /\ UNCHANGED <<graphVars, hist, calls, ret, todo, numClusters, strategy>>

(***************************************************************************)
(* One iteration of the for loop of find_clusters_greedy.                  *)
(***************************************************************************)
GreedyRound ==
    /\ pc = "loop" /\ strategy = "greedy" /\ rounds < todo
    /\ LET bestPair == ScanGreedy(clusters, 1, 2, MinusOne, <<0, 0>>)
       IN  IF bestPair = <<0, 0>>
           THEN pc' = "crashed" /\ UNCHANGED <<clusters, rounds>>
           ELSE /\ clusters' = Merge(clusters, bestPair[1], bestPair[2])
                /\ rounds' = rounds + 1
                /\ pc' = "loop"
    /\ UNCHANGED <<graphVars, hist, calls, ret, todo, numClusters, strategy>>

\* return clusters
Return ==
    /\ pc = "loop" /\ rounds = todo
    /\ pc' = "done"
    /\ UNCHANGED <<graphVars, hist, calls, ret, clusters, rounds, todo,
                   numClusters, strategy>>

NextCluster == Start \/ RandomRound \/ GreedyRound \/ Return

SpecCluster == InitCluster /\ [][NextCluster]_vars

ClusterUnion == UNION {clusters[q] : q \in 1..Len(clusters)}

IsPartition ==
    /\ \A q \in 1..Len(clusters) : clusters[q] # {}
    /\ \A q \in 1..Len(clusters), r \in 1..Len(clusters) :
          q # r => clusters[q] \cap clusters[r] = {}
    /\ ClusterUnion = get_all_vertices

(***************************************************************************)
(* C1: in find_clusters_random and find_clusters_greedy the cluster list   *)
(* is a partition of the graph's vertex set before the first merge round,  *)
(* after every merge round and on return: clusters are non-empty, pairwise *)
(* disjoint, and their union is the vertex set.                            *)
(***************************************************************************)
C1_ClustersPartition == pc \in {"loop", "done", "crashed"} => IsPartition

\* A call has returned after two merge rounds, with a cluster of three.
C1_Witness ==
    /\ pc = "done" /\ rounds >= 2
    /\ \E q \in 1..Len(clusters) : Cardinality(clusters[q]) >= 3

NumVerticesNow == Cardinality(get_all_vertices)

RoundsAndCount ==
    /\ pc # "crashed"
    /\ pc \in {"loop", "done"} =>
          /\ Len(clusters) = NumVerticesNow - rounds
          /\ rounds <= Max(0, NumVerticesNow - numClusters)
    /\ pc = "done" =>
          /\ rounds = Max(0, NumVerticesNow - numClusters)
          /\ Len(clusters) = IF numClusters >= NumVerticesNow
                             THEN NumVerticesNow ELSE numClusters
          /\ numClusters >= NumVerticesNow =>
                clusters = Singletons(NumVertices, get_all_vertices)

NonNegativeWeights ==
    \A u \in get_all_vertices, v \in get_all_vertices : get_weight(u, v) >= 0

(***************************************************************************)
(* C2 as stated: for every graph with n vertices and every integer         *)
(* num_clusters, both functions finish after exactly                       *)
(* max(0, n - num_clusters) merge rounds, each round lowers the number of  *)
(* clusters by one, and the list returned has num_clusters clusters (the n *)
(* singletons, unchanged, when num_clusters >= n).                         *)
(***************************************************************************)
C2_Original == RoundsAndCount

(***************************************************************************)
(* C2, amended: the same, for graphs whose edge weights are all >= 0 and   *)
(* for num_clusters >= 1.                                                  *)
(***************************************************************************)
C2_RoundsAndCount == (numClusters >= 1 /\ NonNegativeWeights) => RoundsAndCount

\* A call with num_clusters = 1 on non-negative weights has returned one
\* cluster after two rounds.
C2_Witness ==
    /\ pc = "done" /\ numClusters = 1 /\ NonNegativeWeights
    /\ rounds = 2 /\ Len(clusters) = 1 /\ todo = 2

\* The index pairs (i1, i2), i1 < i2, of a cluster list, the weight between
\* the two clusters of a pair, and the order in which the pairs are evaluated.
ClusterPairs(cl) ==
    {p \in (1..Len(cl)) \X (1..Len(cl)) : p[1] < p[2]}

PairWeight(cl, p) == cross_cluster_weight(cl[p[1]], cl[p[2]])

EvaluatedBefore(p, q) == p[1] < q[1] \/ (p[1] = q[1] /\ p[2] < q[2])

\* p has maximal weight, and no pair evaluated before p has that weight
FirstMaximalPair(cl, p) ==
    /\ p \in ClusterPairs(cl)
    /\ \A q \in ClusterPairs(cl) :
          /\ ~Greater(PairWeight(cl, q), PairWeight(cl, p))
          /\ EvaluatedBefore(q, p) => Greater(PairWeight(cl, p), PairWeight(cl, q))

\* cl with cl[p[1]] united into the cluster at p[2] and position p[1] dropped
LowerIntoHigher(cl, p) ==
    [q \in 1..(Len(cl) - 1) |->
        LET r == IF q < p[1] THEN q ELSE q + 1
        IN  IF r = p[2] THEN cl[p[2]] \cup cl[p[1]] ELSE cl[r]]

InGreedyRound == strategy = "greedy" /\ pc = "loop" /\ rounds < todo

(***************************************************************************)
(* C11: in every round of find_clusters_greedy the two clusters merged are *)
(* the pair (clusters[i1], clusters[i2]), i1 < i2, whose                   *)
(* cross_cluster_weight is maximal over all pairs of current clusters, and *)
(* among the pairs of that weight the first in the (i1, i2) evaluation     *)
(* order; the merge unions the lower-index cluster into the higher-index   *)
(* one and removes the lower-index cluster from the list.  A round merges  *)
(* whenever some pair weighs more than -1, the initial value of best; a    *)
(* round that does not merge leaves the list as it was.                    *)
(***************************************************************************)
C11_GreedyMergesFirstMaximalPair ==
    [][InGreedyRound =>
         IF \E p \in ClusterPairs(clusters) :
               Greater(PairWeight(clusters, p), MinusOne)
         THEN /\ rounds' = rounds + 1
              /\ \E p \in ClusterPairs(clusters) :
                    /\ FirstMaximalPair(clusters, p)
                    /\ clusters' = LowerIntoHigher(clusters, p)
         ELSE /\ rounds' = rounds
              /\ clusters' = clusters]_vars

\* The first greedy round on three vertices has merged {1} into {3}: the
\* pairs (1, 3) and (2, 3) tie for the maximal weight, (1, 2) weighs less.
C11_Witness ==
    /\ strategy = "greedy" /\ rounds = 1
    /\ clusters = <<{2}, {1, 3}>>
    /\ get_weight(1, 3) = 1 /\ get_weight(2, 3) = 1 /\ get_weight(1, 2) = 0

(***************************************************************************)
(* SIMILARITY SCORES (recommendation.py, Graph_ADT.py).                    *)
(*                                                                         *)
(* A score len(and_set) / len(or_set) is kept exact, as the pair           *)
(* <<len(and_set), len(or_set)>>; the score 0 is <<0, 1>>.                 *)
(***************************************************************************)
Zero == <<0, 1>>

\* x <= y and x = y for quotients with positive denominators
LessEq(x, y) == x[1] * y[2] <= y[1] * x[2]
SameScore(x, y) == x[1] * y[2] = y[1] * x[2]

degree(v) == Cardinality(adj[v])

\* _Vertex.similarity_score
similarity_score(v, other) ==
    IF degree(v) = 0 \/ degree(other) = 0
    THEN Zero
    ELSE LET and_set == adj[v] \cap adj[other]
             or_set == adj[v] \cup adj[other]
         IN  <<Cardinality(and_set), Cardinality(or_set)>>

\* _WeightedVertex.similarity_score_unweighted
similarity_score_unweighted(v, other) ==
    IF degree(v) = 0 \/ degree(other) = 0
    THEN Zero
    ELSE LET and_set == adj[v] \cap adj[other]
             or_set == adj[v] \cup adj[other]
         IN  <<Cardinality(and_set), Cardinality(or_set)>>

\* _WeightedVertex.similarity_score_strict
strict_over_own_neighbours(v, other) ==
    IF degree(v) = 0 \/ degree(other) = 0
    THEN Zero
    ELSE LET and_set == {x \in adj[v] :
                            x \in adj[other] /\ wt[v][x] = wt[other][x]}
             or_set == adj[v]
         IN  <<Cardinality(and_set), Cardinality(or_set)>>

similarity_score_strict(v, other) ==
    IF degree(v) = 0 \/ degree(other) = 0
    THEN Zero
    ELSE LET and_set == {x \in adj[v] :
                            x \in adj[other] /\ wt[v][x] = wt[other][x]}
             or_set == adj[v] \cup adj[other]
         IN  <<Cardinality(and_set), Cardinality(or_set)>>

(***************************************************************************)
(* WeightedGraph.get_similarity_score: the outcome (out) and, when it is   *)
(* "ok", the score (val).  Any score_type but 'unweighted' is strict.      *)
(***************************************************************************)
get_similarity_score(item1, item2, score_type) ==
    IF Present(item1) /\ Present(item2)
    THEN IF score_type = "unweighted"
         THEN [out |-> "ok", val |-> similarity_score_unweighted(item1, item2)]
         ELSE [out |-> "ok", val |-> similarity_score_strict(item1, item2)]
    ELSE [out |-> "ValueError", val |-> Zero]

\* Graph.get_similarity_score
Graph_get_similarity_score(item1, item2) ==
    IF Present(item1) /\ Present(item2)
    THEN [out |-> "ok", val |-> similarity_score(item1, item2)]
    ELSE [out |-> "ValueError", val |-> Zero]

(***************************************************************************)
(* SpecSim: Init draws a WeightedGraph on the vertices 1..NumSimItems: for *)
(* every pair of vertices, and for every vertex with itself, no edge or an *)
(* edge with a weight of SimWeights (any graph add_vertex and add_edge     *)
(* build is of this shape, C3).  The action calls get_similarity_score,    *)
(* once for each drawn graph: the call leaves the graph as it is, so a     *)
(* second call starts from the state the first started from.               *)
(***************************************************************************)
NumSimItems == 3
SimWeights == {1, 2}
ScoreTypes == {"unweighted", "strict"}

SItems == 1..NumSimItems
SPairs == {p \in SUBSET SItems : Cardinality(p) \in {1, 2}}

InitSim ==
    /\ cls = "WeightedGraph"
    /\ kind = [i \in SItems |-> "user"]
    /\ \E w \in [SPairs -> {NoEdge} \cup SimWeights] :
          /\ adj = [i \in SItems |-> {j \in SItems : w[{i, j}] # NoEdge}]
          /\ wt = [i \in SItems |-> [j \in SItems |-> w[{i, j}]]]
    /\ hist = [p \in {} |-> 0]
    /\ calls = 0
    /\ ret = NoCall
    /\ IdleCluster

GetSimilarityScore ==
    /\ ret.op = "init"
    /\ \E item1 \in SItems, item2 \in SItems, score_type \in ScoreTypes :
          LET r == get_similarity_score(item1, item2, score_type)
          IN  ret' = [op |-> "get_similarity_score", a |-> item1, b |-> item2,
                      k |-> score_type, old |-> 0, out |-> r.out,
                      val |-> r.val]
    /\ UNCHANGED <<graphVars, hist, calls, clusterVars>>

NextSim == GetSimilarityScore

SpecSim == InitSim /\ [][NextSim]_vars

(***************************************************************************)
(* C9: for every WeightedGraph and all present vertices a and b,           *)
(* get_similarity_score(a, b, 'strict') <=                                 *)
(* get_similarity_score(a, b, 'unweighted'): the strict intersection is    *)
(* not larger than the set of common neighbours, over the same             *)
(* denominator, and both scores are 0 when a or b has degree 0.            *)
(***************************************************************************)
C9_StrictAtMostUnweighted ==
    (ret.op = "get_similarity_score" /\ ret.out = "ok") =>
       LET strict == IF ret.k = "strict" THEN ret.val
                     ELSE get_similarity_score(ret.a, ret.b, "strict").val
           unweighted == IF ret.k = "unweighted" THEN ret.val
                         ELSE get_similarity_score(ret.a, ret.b,
                                                   "unweighted").val
       IN  /\ LessEq(strict, unweighted)
           /\ strict[1] <= unweighted[1]
           /\ strict[2] = unweighted[2]
           /\ (degree(ret.a) = 0 \/ degree(ret.b) = 0) =>
                 (strict = Zero /\ unweighted = Zero)

\* A strict score that is not 0 and smaller than the unweighted score of
\* the same pair.
C9_Witness ==
    /\ ret.op = "get_similarity_score" /\ ret.out = "ok" /\ ret.k = "strict"
    /\ ret.a # ret.b
    /\ ret.val[1] > 0
    /\ ~LessEq(get_similarity_score(ret.a, ret.b, "unweighted").val, ret.val)

(***************************************************************************)
(* RATING PREDICTORS (predictions.py).                                     *)
(*                                                                         *)
(* Sums and quotients of scores are exact quotients <<numerator,           *)
(* denominator>> with a positive denominator (the code computes them in    *)
(* floating point; its rounding error is not modelled).                    *)
(***************************************************************************)
PlusQ(x, y) == <<x[1] * y[2] + y[1] * x[2], x[2] * y[2]>>
TimesInt(x, n) == <<x[1] * n, x[2]>>
\* x / y for y > 0
DivQ(x, y) == <<x[1] * y[2], x[2] * y[1]>>

(***************************************************************************)
(* round(x) of Python 3: the nearest integer, the even one of the two when *)
(* x is halfway between them.  \div rounds down.                           *)
(***************************************************************************)
round(x) ==
    LET q == x[1] \div x[2]
        r == x[1] - q * x[2]
    IN  IF 2 * r < x[2] THEN q
        ELSE IF 2 * r > x[2] THEN q + 1
        ELSE IF q % 2 = 0 THEN q ELSE q + 1

\* Graph.get_all_vertices(kind) with a non-empty kind
get_all_vertices_of(knd) == {i \in DOMAIN kind : kind[i] = knd}

RECURSIVE SumValues(_, _)
SumValues(v, S) ==
    IF S = {} THEN 0
    ELSE LET x == CHOOSE y \in S : TRUE
         IN  wt[v][x] + SumValues(v, S \ {x})

(***************************************************************************)
(* WeightedGraph.average_weight: sum(values) / len(neighbours), ValueError *)
(* for a missing item, ZeroDivisionError for a vertex without neighbours.  *)
(***************************************************************************)
average_weight_lenient(item) ==
    IF Present(item) /\ adj[item] # {}
    THEN [out |-> "ok", val |-> <<SumValues(item, adj[item]), degree(item)>>]
    ELSE [out |-> "ok", val |-> Zero]

average_weight(item) ==
    IF Present(item)
    THEN IF adj[item] = {}
         THEN [out |-> "ZeroDivisionError", val |-> Zero]
         ELSE [out |-> "ok",
               val |-> <<SumValues(item, adj[item]), degree(item)>>]
    ELSE [out |-> "ValueError", val |-> Zero]

\* round(self.graph.average_weight(book)): an error of average_weight goes up
rounded_average(book) ==
    LET avg == average_weight(book)
    IN  IF avg.out = "ok"
        THEN [out |-> "ok", val |-> round(avg.val)]
        ELSE [out |-> avg.out, val |-> 0]

FiveStars == 5

(***************************************************************************)
(* predict_review_score of the three predictors.  The result holds the     *)
(* return statement reached (branch: "edge", "five", "average",            *)
(* "fallback", "ratio", or "raise" when an error left the function before  *)
(* one was reached), the outcome (out) and the value returned (val).       *)
(***************************************************************************)
FiveStarPredictor(user, book) ==
    IF adjacent(user, book)
    THEN [branch |-> "edge", out |-> "ok", val |-> get_weight(user, book)]
    ELSE [branch |-> "five", out |-> "ok", val |-> FiveStars]

BookAverageScorePredictor(user, book) ==
    IF adjacent(user, book)
    THEN [branch |-> "edge", out |-> "ok", val |-> get_weight(user, book)]
    ELSE LET r == rounded_average(book)
         IN  [branch |-> "average", out |-> r.out, val |-> r.val]

\* weight_similarity_score = get_similarity_score(user, other_user, 'strict')
weight_similarity_unweighted(user, other_user) ==
    get_similarity_score(user, other_user, "unweighted")

weight_similarity_score(user, other_user) ==
    get_similarity_score(user, other_user, "strict")

\* sum(score_predictor) over the users the loop appends for
RECURSIVE SumScorePredictor(_, _, _)
SumScorePredictor(user, book, S) ==
    IF S = {} THEN Zero
    ELSE LET o == CHOOSE y \in S : TRUE
         IN  PlusQ(TimesInt(weight_similarity_score(user, o).val,
                            get_weight(o, book)),
                   SumScorePredictor(user, book, S \ {o}))

\* total_weighted_score after the loop
RECURSIVE SumSimilarity(_, _)
SumSimilarity(user, S) ==
    IF S = {} THEN Zero
    ELSE LET o == CHOOSE y \in S : TRUE
         IN  PlusQ(weight_similarity_score(user, o).val,
                   SumSimilarity(user, S \ {o}))

(***************************************************************************)
(* The loop runs over the vertices of kind 'user'.  Its first iteration    *)
(* raises KeyError in get_weight when book is no vertex; the first         *)
(* iteration that passes the weight test raises ValueError in              *)
(* get_similarity_score when user is no vertex.  Which iteration is first  *)
(* does not change the outcome.                                            *)
(***************************************************************************)
SimilarUserPredictor(user, book) ==
    IF adjacent(user, book)
    THEN [branch |-> "edge", out |-> "ok", val |-> get_weight(user, book)]
    ELSE LET users == get_all_vertices_of("user")
         IN  IF users # {} /\ ~Present(book)
             THEN [branch |-> "raise", out |-> "KeyError", val |-> 0]
             ELSE LET appended == {o \in users : get_weight(o, book) > 0}
                  IN  IF appended # {} /\ ~Present(user)
                      THEN [branch |-> "raise", out |-> "ValueError",
                            val |-> 0]
                      ELSE LET sum_score_predictor ==
                                   SumScorePredictor(user, book, appended)
                               total_weighted_score ==
                                   SumSimilarity(user, appended)
                           IN  IF sum_score_predictor[1] = 0
                               THEN LET r == rounded_average(book)
                                    IN  [branch |-> "fallback", out |-> r.out,
                                         val |-> r.val]
                               ELSE [branch |-> "ratio", out |-> "ok",
                                     val |-> round(DivQ(sum_score_predictor,
                                                    total_weighted_score))]

(***************************************************************************)
(* SpecPredict: Init draws a review graph as load_weighted_review_graph    *)
(* builds them: some of the users 1..NumUsers and of the books             *)
(* NumUsers+1..NumUsers+NumBooks are vertices, and each present user has   *)
(* reviewed each present book with a score of SimWeights, or not at all.   *)
(* One predictor is then asked for one (user, book), present or not.       *)
(***************************************************************************)
NumUsers == 2
NumBooks == 2

PUsers == 1..NumUsers
PBooks == (NumUsers + 1)..(NumUsers + NumBooks)
PItems == PUsers \cup PBooks

InitPredict ==
    /\ cls = "WeightedGraph"
    /\ \E P \in SUBSET PItems :
       \E w \in [(P \cap PUsers) \X (P \cap PBooks) -> {NoEdge} \cup SimWeights] :
          LET edge(i, j) == IF <<i, j>> \in DOMAIN w THEN w[<<i, j>>]
                            ELSE IF <<j, i>> \in DOMAIN w THEN w[<<j, i>>]
                            ELSE NoEdge
          IN  /\ kind = [i \in PItems |->
                           IF i \notin P THEN "none"
                           ELSE IF i \in PUsers THEN "user" ELSE "book"]
              /\ adj = [i \in PItems |->
                          {j \in PItems : edge(i, j) # NoEdge}]
              /\ wt = [i \in PItems |-> [j \in PItems |-> edge(i, j)]]
    /\ hist = [p \in {} |-> 0]
    /\ calls = 0
    /\ ret = NoCall
    /\ IdleCluster

Answer(name, user, book, r) ==
    [op |-> name, a |-> user, b |-> book, k |-> r.branch, old |-> 0,
     out |-> r.out, val |-> r.val]

PredictFiveStar ==
    /\ ret.op = "init"
    /\ \E user \in PUsers, book \in PBooks :
          ret' = Answer("FiveStarPredictor", user, book,
                        FiveStarPredictor(user, book))
    /\ UNCHANGED <<graphVars, hist, calls, clusterVars>>

PredictBookAverage ==
    /\ ret.op = "init"
    /\ \E user \in PUsers, book \in PBooks :
          ret' = Answer("BookAverageScorePredictor", user, book,
                        BookAverageScorePredictor(user, book))
    /\ UNCHANGED <<graphVars, hist, calls, clusterVars>>

PredictSimilarUser ==
    /\ ret.op = "init"
    /\ \E user \in PUsers, book \in PBooks :
          ret' = Answer("SimilarUserPredictor", user, book,
                        SimilarUserPredictor(user, book))
    /\ UNCHANGED <<graphVars, hist, calls, clusterVars>>

NextPredict == PredictFiveStar \/ PredictBookAverage \/ PredictSimilarUser

SpecPredict == InitPredict /\ [][NextPredict]_vars

Predictors ==
    {"FiveStarPredictor", "BookAverageScorePredictor", "SimilarUserPredictor"}

(***************************************************************************)
(* C7 as stated: for each of the three predictors,                         *)
(* predict_review_score(user, book) fails with an error whenever user or   *)
(* book is not a vertex key of the graph.                                  *)
(***************************************************************************)
C7_Original ==
    (ret.op \in Predictors /\ (~Present(ret.a) \/ ~Present(ret.b))) =>
       ret.out # "ok"

(***************************************************************************)
(* C7, amended: BookAverageScorePredictor and SimilarUserPredictor fail    *)
(* with an error whenever book is not a vertex key; FiveStarPredictor does *)
(* not fail when user or book is not a vertex key, it returns 5.           *)
(***************************************************************************)
C7_MissingKeys ==
    (ret.op \in Predictors /\ (~Present(ret.a) \/ ~Present(ret.b))) =>
       /\ ret.op = "FiveStarPredictor" => (ret.out = "ok" /\ ret.val = 5)
       /\ (ret.op # "FiveStarPredictor" /\ ~Present(ret.b)) => ret.out # "ok"

\* SimilarUserPredictor asked for a missing book on a graph without users:
\* the loop does not run and average_weight raises.
C7_Witness ==
    /\ ret.op = "SimilarUserPredictor" /\ ~Present(ret.b)
    /\ get_all_vertices_of("user") = {}
    /\ ret.out = "ValueError"

(***************************************************************************)
(* C10: SimilarUserPredictor.predict_review_score(user, book), for         *)
(* vertices user and book that are not adjacent, returns                   *)
(* round(average_weight(book)) exactly when the total strict similarity    *)
(* between user and the users who reviewed book is zero (the error of      *)
(* average_weight, for a book without neighbours, is then the outcome),    *)
(* and otherwise the rounded ratio sum(similarity x score) /               *)
(* sum(similarity), whose denominator is not zero.                         *)
(***************************************************************************)
Reviewers(book) == {o \in get_all_vertices_of("user") : get_weight(o, book) > 0}

RECURSIVE TotalStrict(_, _)
TotalStrict(user, S) ==
    IF S = {} THEN Zero
    ELSE LET o == CHOOSE y \in S : TRUE
         IN  PlusQ(similarity_score_strict(user, o), TotalStrict(user, S \ {o}))

RECURSIVE TotalStrictTimesScore(_, _, _)
TotalStrictTimesScore(user, book, S) ==
    IF S = {} THEN Zero
    ELSE LET o == CHOOSE y \in S : TRUE
         IN  PlusQ(TimesInt(similarity_score_strict(user, o), wt[o][book]),
                   TotalStrictTimesScore(user, book, S \ {o}))

Orders(S) ==
    {f \in [1..Cardinality(S) -> S] : \A i, j \in DOMAIN f : i # j => f[i] # f[j]}

\* list.sort(scores_so_far, reverse=True), for the scores scoreOf[v], v in S
RECURSIVE SortedReverse(_, _)
SortedReverse(scoreOf, S) ==
    IF S = {} THEN <<>>
    ELSE LET top == CHOOSE v \in S : \A u \in S : LessEq(scoreOf[u], scoreOf[v])
         IN  <<scoreOf[top]>> \o SortedReverse(scoreOf, S \ {top})

\* One pass of the inner loop: the vertices of order, in order, whose score
\* equals score.
RECURSIVE AppendEqual(_, _, _, _)
AppendEqual(scoreOf, order, i, score) ==
    IF i > Len(order) THEN <<>>
    ELSE (IF SameScore(scoreOf[order[i]], score) THEN <<order[i]>> ELSE <<>>)
         \o AppendEqual(scoreOf, order, i + 1, score)

\* The outer loop, from its k-th iteration on; ords[k] is the order in which
\* that iteration sees the book vertices.
RECURSIVE ListSoFar(_, _, _, _)
ListSoFar(scoreOf, scores_so_far, ords, k) ==
    IF k > Len(scores_so_far) THEN <<>>
    ELSE AppendEqual(scoreOf, ords[k], 1, scores_so_far[k])
         \o ListSoFar(scoreOf, scores_so_far, ords, k + 1)

\* list_so_far if len(list_so_far) < limit, else list_so_far[:limit]
UpToLimit(list_so_far, limit) ==
    IF Len(list_so_far) < limit THEN list_so_far
    ELSE IF limit >= 0 THEN SubSeq(list_so_far, 1, limit)
    ELSE SubSeq(list_so_far, 1, Max(0, Len(list_so_far) + limit))

\* the book vertices the loops do not skip
OtherBooks(book) == get_all_vertices_of("book") \ {book}

(***************************************************************************)
(* The two loops and the return of recommend_books, for the scores         *)
(* scoreOf[vertex] get_similarity_score gives.  With another book in the   *)
(* graph and `book` no vertex, get_similarity_score raises ValueError in   *)
(* the first loop.                                                         *)
(***************************************************************************)
Recommend(scoreOf, book, limit, ords) ==
    IF OtherBooks(book) # {} /\ ~Present(book)
    THEN [out |-> "ValueError", val |-> <<>>]
    ELSE LET scores_so_far == SortedReverse(scoreOf, OtherBooks(book))
             list_so_far == ListSoFar(scoreOf, scores_so_far, ords, 1)
         IN  [out |-> "ok", val |-> UpToLimit(list_so_far, limit)]

Graph_recommend_books(book, limit, ords) ==
    Recommend([vertex \in OtherBooks(book) |->
                  Graph_get_similarity_score(book, vertex).val],
              book, limit, ords)

recommend_books(book, limit, score_type, ords) ==
    Recommend([vertex \in OtherBooks(book) |->
                  get_similarity_score(book, vertex, score_type).val],
              book, limit, ords)

(***************************************************************************)
(* SpecRecommend: Init draws a Graph or a WeightedGraph with the users     *)
(* 1..NumRecUsers and the books after them, and for each user and book no  *)
(* edge or an edge (of a weight of SimWeights on a WeightedGraph).  One    *)
(* recommend_books call is then made, with a limit of 0..MaxLimit.         *)
(***************************************************************************)
NumRecUsers == 2
NumRecBooks == 3
MaxLimit == 4

RUsers == 1..NumRecUsers
RBooks == (NumRecUsers + 1)..(NumRecUsers + NumRecBooks)
RItems == RUsers \cup RBooks

InitRecommend ==
    /\ cls \in {"Graph", "WeightedGraph"}
    /\ kind = [i \in RItems |-> IF i \in RUsers THEN "user" ELSE "book"]
    /\ \E w \in [RUsers \X RBooks ->
                   IF cls = "Graph" THEN {NoEdge, 1} ELSE {NoEdge} \cup SimWeights] :
          LET edge(i, j) == IF <<i, j>> \in DOMAIN w THEN w[<<i, j>>]
                            ELSE IF <<j, i>> \in DOMAIN w THEN w[<<j, i>>]
                            ELSE NoEdge
          IN  /\ adj = [i \in RItems |-> {j \in RItems : edge(i, j) # NoEdge}]
              /\ wt = [i \in RItems |-> [j \in RItems |->
                         IF cls = "Graph" THEN 0 ELSE edge(i, j)]]
    /\ hist = [p \in {} |-> 0]
    /\ calls = 0
    /\ ret = NoCall
    /\ IdleCluster

\* the orders of the outer loop's iterations, one for each other book
LoopOrders(book) ==
    [1..Cardinality(OtherBooks(book)) -> Orders(OtherBooks(book))]

RecommendBooks ==
    /\ ret.op = "init" /\ cls = "Graph"
    /\ \E book \in RBooks, limit \in 0..MaxLimit :
       \E ords \in LoopOrders(book) :
          LET r == Graph_recommend_books(book, limit, ords)
          IN  ret' = [op |-> "recommend_books", a |-> book, b |-> limit,
                      k |-> "none", old |-> 0, out |-> r.out, val |-> r.val]
    /\ UNCHANGED <<graphVars, hist, calls, clusterVars>>

WeightedRecommendBooks ==
    /\ ret.op = "init" /\ cls = "WeightedGraph"
    /\ \E book \in RBooks, limit \in 0..MaxLimit, score_type \in ScoreTypes :
       \E ords \in LoopOrders(book) :
          LET r == recommend_books(book, limit, score_type, ords)
          IN  ret' = [op |-> "recommend_books", a |-> book, b |-> limit,
                      k |-> score_type, old |-> 0, out |-> r.out,
                      val |-> r.val]
    /\ UNCHANGED <<graphVars, hist, calls, clusterVars>>

NextRecommend == RecommendBooks \/ WeightedRecommendBooks

SpecRecommend == InitRecommend /\ [][NextRecommend]_vars

(***************************************************************************)
(* C6: the list recommend_books(book, limit) returns (Graph and            *)
(* WeightedGraph) has no duplicate entries, also when two or more other    *)
(* books have the same similarity score to book.                           *)
(***************************************************************************)
C6_NoDuplicates ==
    (ret.op = "recommend_books" /\ ret.out = "ok") =>
       \A i, j \in 1..Len(ret.val) : i # j => ret.val[i] # ret.val[j]

=============================================================================
